---- MODULE Spec2Model ----
(***************************************************************************)
(* State-machine model of the StarPen blogging application (src/app.py):   *)
(* the users / blogs / comments tables, the "thumbnails" bucket of the     *)
(* object store, the login session of each browser, and one action per     *)
(* route handler.                                                          *)
(*                                                                         *)
(* Conventions.  Text is a sequence of one-character strings.  A Python    *)
(* value that may be None is a sequence of length 0 (None) or 1 (the       *)
(* value).  A URL is the sequence of its "/"-separated segments.           *)
(***************************************************************************)
EXTENDS Integers, Sequences, FiniteSets, TLC

\* ------------------------------------------------------------------ bounds
NumClients == 1      \* browsers (sessions) issuing requests
MaxBlogs == 1        \* rows ever inserted into blogs (autoincrement ids)
MaxComments == 1     \* rows ever inserted into comments
MaxUuids == 2        \* uuid4 values ever drawn for blob names
MaxInflight == 2     \* register requests between their check and their commit

Clients == 1..NumClients

\* ------------------------------------------------------------ Python values
None == <<>>
Some(v) == <<v>>
Get(o) == o[1]

\* `not x` for an optional text: None and "" are falsy.
Falsy(o) == o = None \/ Get(o) = <<>>

Last(s) == s[Len(s)]

\* ------------------------------------------------------------- input sets
Alice == <<"a", "l">>
Bob == <<"B", "o">>
Usernames == {Alice, Bob}

Pw8 == <<"p", "a", "s", "s", "w", "o", "r", "d">>
Pw7 == <<"p", "a", "s", "s", "w", "o", "r">>
Passwords == {Pw8, Pw7}

Salts == {"s1"}

Credentials(username, password, confirmation) ==
    [username |-> username, password |-> password, confirmation |-> confirmation]

\* The submitted fields of register.html: the well-formed forms, and forms
\* with a field absent or empty, a short password, another confirmation.
RegisterForms ==
    {Credentials(Some(u), Some(Pw8), Some(Pw8)) : u \in Usernames} \cup
    { Credentials(None, Some(Pw8), Some(Pw8)),
      Credentials(Some(<<>>), Some(Pw8), Some(Pw8)),
      Credentials(Some(Alice), None, None),
      Credentials(Some(Alice), Some(<<>>), Some(<<>>)),
      Credentials(Some(Alice), Some(Pw7), Some(Pw7)),
      Credentials(Some(Alice), Some(Pw8), Some(Pw7)),
      Credentials(Some(Alice), Some(Pw8), None) }

\* The submitted fields of login.html.
LoginForms ==
    {Credentials(Some(u), Some(p), None) : u \in Usernames, p \in Passwords} \cup
    { Credentials(None, Some(Pw8), None),
      Credentials(Some(<<>>), Some(Pw8), None),
      Credentials(Some(Alice), None, None),
      Credentials(Some(Alice), Some(<<>>), None) }

NoCredentials == Credentials(None, None, None)

Methods == {"GET", "POST"}

\* --------------------------------------------------- werkzeug.security
\* generate_password_hash / check_password_hash: a salted one-way digest,
\* kept as the uninterpreted term Digest(salt, password).
Digest(salt, password) == <<"scrypt", salt, password>>

generate_password_hash(password, salt) ==
    [salt |-> salt, digest |-> Digest(salt, password)]

\* Mutant: the check recomputes the digest with a salt of its own.
check_password_hash_OwnSalt(hash, password) ==
    hash.digest = Digest("s0", password)

check_password_hash(hash, password) ==
    hash.digest = Digest(hash.salt, password)

\* ------------------------------------------------------------------ state
VARIABLES
    users,      \* table users: sequence of rows, the id is the position
    blogs,      \* table blogs: function from the live ids to rows
    comments,   \* table comments: function from the live ids to rows
    nextBlogId, \* autoincrement of blogs.id
    nextCommentId, \* autoincrement of comments.id
    blobs,      \* names stored in the bucket "thumbnails"
    nextUuid,   \* uuid4 values drawn so far + 1
    session,    \* per client: 0 (anonymous) or the logged-in user's id
    inflight,   \* requests past their checks and not yet committed, by arrival
    resp,       \* the response of the last completed request
    registered  \* history: the credentials of each successful register, by user id

vars == <<users, blogs, comments, nextBlogId, nextCommentId, blobs, nextUuid,
          session, inflight, resp, registered>>

store == <<users, blogs, comments, nextBlogId, nextCommentId>>

Anonymous == 0

\* Mutant: a route without @login_required.
is_authenticated_Unguarded(c) == TRUE

\* current_user.is_authenticated, which @login_required tests.
is_authenticated(c) == session[c] # Anonymous

\* A response: what the handler returned, and what it printed.
Response(op, kind, to, error, flashed, printed) ==
    [op |-> op, kind |-> kind, to |-> to, error |-> error,
     flashed |-> flashed, printed |-> printed, blogs |-> <<>>]

Redirect(op, to) == Response(op, "redirect", to, "", "", <<>>)
Render(op, template, error) == Response(op, "render", template, error, "", <<>>)
Abort(op, code) == Response(op, "abort", code, "", "", <<>>)
Flash(op, to, message) == Response(op, "redirect", to, "", message, <<>>)

\* render_template(template, blogs = ids)
RenderList(op, template, ids) ==
    [Render(op, template, "") EXCEPT !.blogs = ids]

\* flask_login: @login_required on an anonymous session.
Unauthorized(op) ==
    Response(op, "redirect", "login", "", "Please log in to access this page.", <<>>)

Init ==
    /\ users = <<>>
    /\ blogs = <<>>
    /\ comments = <<>>
    /\ nextBlogId = 1
    /\ nextCommentId = 1
    /\ blobs = {}
    /\ nextUuid = 1
    /\ session = [c \in Clients |-> Anonymous]
    /\ inflight = <<>>
    /\ resp = Response("none", "none", "", "", "", <<>>)
    /\ registered = <<>>

\* ------------------------------------------------------------ text helpers
UpperCase == <<"A", "B", "C", "H", "J", "L", "O", "P", "T">>
LowerCase == <<"a", "b", "c", "h", "j", "l", "o", "p", "t">>

\* str.lower() on one character.
LowerChar(ch) ==
    IF \E i \in 1..Len(UpperCase) : UpperCase[i] = ch
    THEN LowerCase[CHOOSE i \in 1..Len(UpperCase) : UpperCase[i] = ch]
    ELSE ch

Lower(text) == [i \in 1..Len(text) |-> LowerChar(text[i])]

\* Position of the last "." of a file name, 0 when it has none.
LastDot(name) ==
    IF \E i \in 1..Len(name) : name[i] = "."
    THEN CHOOSE i \in 1..Len(name) :
            name[i] = "." /\ \A j \in (i + 1)..Len(name) : name[j] # "."
    ELSE 0

\* file.filename.rsplit('.', 1)[1] raises IndexError when there is no ".".
HasExtension(name) == LastDot(name) # 0

\* file.filename.rsplit('.', 1)[1].lower()
Extension(name) == Lower(SubSeq(name, LastDot(name) + 1, Len(name)))

\* int(text) as the database casts the form's category to blogs.category_id.
DigitValue(ch) ==
    CASE ch = "0" -> 0 [] ch = "1" -> 1 [] ch = "2" -> 2 [] ch = "3" -> 3
      [] ch = "4" -> 4 [] ch = "5" -> 5 [] ch = "6" -> 6 [] ch = "7" -> 7
      [] ch = "8" -> 8 [] ch = "9" -> 9

RECURSIVE ParseInt(_)
ParseInt(text) ==
    IF text = <<>> THEN 0
    ELSE 10 * ParseInt(SubSeq(text, 1, Len(text) - 1)) + DigitValue(Last(text))

\* ---------------------------------------------------------- object store
\* f"{uuid.uuid4()}.{ext}"
UniqueName(uuid, ext) == [uuid |-> uuid, ext |-> ext]

\* supabase.storage.from_("thumbnails").get_public_url(name), by segments.
PublicUrl(name) ==
    <<"https:", "", "project.supabase.co", "storage", "v1", "object", "public",
      "thumbnails", name>>

\* blog.thumbnail.split("/")[-1]
OldFilename(url) == Last(url)

\* ------------------------------------------------------ content input sets
Title1 == <<"T", "a">>
Body1 == <<"c", "o">>
CategoryIds == {1}

PostForm(title, content, category) ==
    [title |-> title, content |-> content, category |-> category]

\* The submitted fields of create.html / edit.html: the well-formed forms, and
\* forms with one field absent, empty, or naming no category.
PostForms ==
    { PostForm(Some(Title1), Some(Body1), Some(<<"1">>)),
      PostForm(None, Some(Body1), Some(<<"1">>)),
      PostForm(Some(<<>>), Some(Body1), Some(<<"1">>)),
      PostForm(Some(Title1), None, Some(<<"1">>)),
      PostForm(Some(Title1), Some(Body1), None),
      PostForm(Some(Title1), Some(Body1), Some(<<"9">>)) }

NoForm == PostForm(None, None, None)

\* request.files.get("thumbnail"): no part, a part with an empty file name,
\* a name without extension, a name with one.
FileInputs == {None, Some(<<>>), Some(<<"p">>), Some(<<"p", ".", "J">>)}

CommentInputs == {None, Some(<<>>), Some(<<" ">>), Some(<<" ", "h">>)}

QueryInputs == {None, Some(<<>>), Some(<<"A">>)}

\* ------------------------------------------------------------ Identity
UserIds == 1..Len(users)

\* User.query.filter_by(username = username).first(): the id, or 0.
UserByName(tbl, username) ==
    IF \E i \in 1..Len(tbl) : tbl[i].username = username
    THEN CHOOSE i \in 1..Len(tbl) : tbl[i].username = username
    ELSE 0

\* Mutant: the length check off by one, a password of 8 is refused.
RegisterError_OffByOne(tbl, username, password, confirmation) ==
    IF Falsy(username) \/ Falsy(password) THEN "All fields are required"
    ELSE IF Len(Get(password)) <= 8 THEN "Password must be at least 8 characters"
    ELSE IF password # confirmation THEN "Passwords do not match"
    ELSE IF UserByName(tbl, Get(username)) # 0 THEN "Username already taken"
    ELSE ""

\* The validation of register, lines 286-294: "" when the form passes.
RegisterError(tbl, username, password, confirmation) ==
    IF Falsy(username) \/ Falsy(password) THEN "All fields are required"
    ELSE IF Len(Get(password)) < 8 THEN "Password must be at least 8 characters"
    ELSE IF password # confirmation THEN "Passwords do not match"
    ELSE IF UserByName(tbl, Get(username)) # 0 THEN "Username already taken"
    ELSE ""

\* INSERT INTO users at commit: the unique constraint on username decides.
InsertUserOk(tbl, username) == UserByName(tbl, username) = 0

\* Lines 296-301 of register, run against the table as it is at commit.
RegisterCommit(c, username, password, salt) ==
    IF InsertUserOk(users, username)
    THEN /\ users' = Append(users, [username |-> username,
                                    hash |-> generate_password_hash(password, salt)])
         /\ session' = [session EXCEPT ![c] = Len(users) + 1]
         /\ registered' = Append(registered, [username |-> username, password |-> password])
         /\ resp' = Redirect("register", "index")
    ELSE /\ UNCHANGED <<users, session, registered>>
         /\ resp' = Abort("register", "500 IntegrityError")

register(c, method, form, salt) ==
    /\ IF method = "POST"
       THEN LET err == RegisterError(users, form.username, form.password,
                                     form.confirmation) IN
            IF err # ""
            THEN /\ resp' = Render("register", "register.html", err)
                 /\ UNCHANGED <<users, session, registered>>
            ELSE RegisterCommit(c, Get(form.username), Get(form.password), salt)
       ELSE /\ resp' = Render("register", "register.html", "")
            /\ UNCHANGED <<users, session, registered>>
    /\ UNCHANGED <<blogs, comments, nextBlogId, nextCommentId, blobs, nextUuid, inflight>>

\* Mutant: an unknown username gets a message of its own.
LoginError_Enumerating(tbl, username, password) ==
    IF Falsy(username) \/ Falsy(password) THEN "Missing credentials"
    ELSE LET user == UserByName(tbl, Get(username)) IN
         IF user = 0 THEN "Unknown Username"
         ELSE IF ~check_password_hash(tbl[user].hash, Get(password))
         THEN "Invalid Username or Password"
         ELSE ""

\* The checks of login on a submitted form, lines 259-267: the error it
\* renders, "" when the credentials are accepted.
LoginError(tbl, username, password) ==
    IF Falsy(username) \/ Falsy(password) THEN "Missing credentials"
    ELSE LET user == UserByName(tbl, Get(username)) IN
         IF user = 0 \/ ~check_password_hash(tbl[user].hash, Get(password))
         THEN "Invalid Username or Password"
         ELSE ""

login(c, method, form) ==
    /\ IF is_authenticated(c)
       THEN /\ resp' = Redirect("login", "index")
            /\ UNCHANGED session
       ELSE IF method = "POST"
       THEN LET err == LoginError(users, form.username, form.password) IN
            IF err # ""
            THEN /\ resp' = Render("login", "login.html", err)
                 /\ UNCHANGED session
            ELSE /\ session' = [session EXCEPT ![c] = UserByName(users, Get(form.username))]
                 /\ resp' = Redirect("login", "index")
       ELSE /\ resp' = Render("login", "login.html", "")
            /\ UNCHANGED session
    /\ UNCHANGED <<users, blogs, comments, nextBlogId, nextCommentId, blobs, nextUuid,
                   inflight, registered>>

\* register up to its last check (line 293), the commit still to come.
register_begin(c, form, salt) ==
    /\ Len(inflight) < MaxInflight
    /\ RegisterError(users, form.username, form.password, form.confirmation) = ""
    /\ inflight' = Append(inflight, [client |-> c, username |-> Get(form.username),
                                     password |-> Get(form.password), salt |-> salt])
    /\ UNCHANGED <<store, blobs, nextUuid, session, resp, registered>>

\* The rest of a register request in flight: lines 296-301.
register_finish(i) ==
    /\ i \in 1..Len(inflight)
    /\ RegisterCommit(inflight[i].client, inflight[i].username, inflight[i].password,
                      inflight[i].salt)
    /\ inflight' = [k \in 1..(Len(inflight) - 1) |->
                        IF k < i THEN inflight[k] ELSE inflight[k + 1]]
    /\ UNCHANGED <<blogs, comments, nextBlogId, nextCommentId, blobs, nextUuid>>

logout(c) ==
    /\ IF ~is_authenticated(c)
       THEN /\ resp' = Unauthorized("logout")
            /\ UNCHANGED session
       ELSE /\ session' = [session EXCEPT ![c] = Anonymous]
            /\ resp' = Redirect("logout", "login")
    /\ UNCHANGED <<users, blogs, comments, nextBlogId, nextCommentId, blobs, nextUuid, inflight,
                   registered>>

\* ------------------------------------------------------------- Content
\* datetime.utcnow at an insert: a logical time that grows with every insert.
Now == nextBlogId + nextCommentId

BlogIds == DOMAIN blogs
CommentIds == DOMAIN comments

\* A function without the rows of `gone`.
Without(tbl, gone) == [i \in (DOMAIN tbl) \ gone |-> tbl[i]]

\* A function with one more row.
With(tbl, id, row) == [i \in (DOMAIN tbl) \cup {id} |-> IF i = id THEN row ELSE tbl[i]]

Whitespace(ch) == ch \in {" ", "\t", "\n"}

\* str.strip()
RECURSIVE Strip(_)
Strip(text) ==
    IF text = <<>> THEN text
    ELSE IF Whitespace(text[1]) THEN Strip(Tail(text))
    ELSE IF Whitespace(Last(text)) THEN Strip(SubSeq(text, 1, Len(text) - 1))
    ELSE text

\* Mutant: the test without the strip.
BlankComment_NoStrip(content) == Falsy(content)

\* `not content or content.strip() == ""`, line 99
BlankComment(content) == Falsy(content) \/ Strip(Get(content)) = <<>>

\* SQL LIKE: "%" in the pattern stands for any text, "_" for any one
\* character, every other character for itself.
RECURSIVE Like(_, _)
Like(text, pattern) ==
    IF pattern = <<>> THEN text = <<>>
    ELSE IF pattern[1] = "%"
    THEN Like(text, Tail(pattern)) \/ (text # <<>> /\ Like(Tail(text), pattern))
    ELSE /\ text # <<>>
         /\ (pattern[1] = "_" \/ pattern[1] = text[1])
         /\ Like(Tail(text), Tail(pattern))

\* column.ilike(f'%{q}%'): LIKE on the lower-cased text and pattern; q goes
\* into the pattern as it was sent.
ILike(text, q) == Like(Lower(text), Lower(<<"%">> \o q \o <<"%">>))

\* The filter of index, lines 84-88.
Matches(id, q) ==
    \/ ILike(blogs[id].title, q)
    \/ ILike(blogs[id].content, q)
    \/ ILike(users[blogs[id].user_id].username, q)

\* .order_by(Blog.created_at.desc()).all()
RECURSIVE OrderByCreatedDesc(_)
OrderByCreatedDesc(ids) ==
    IF ids = {} THEN <<>>
    ELSE LET newest == CHOOSE i \in ids :
                          \A j \in ids : blogs[j].created_at <= blogs[i].created_at
         IN <<newest>> \o OrderByCreatedDesc(ids \ {newest})

\* NOT NULL and FOREIGN KEY of blogs, checked at commit of an INSERT or UPDATE.
BlogRowOk(title, content, category) ==
    /\ title # None
    /\ content # None
    /\ category # None
    /\ Get(category) # <<>>
    /\ ParseInt(Get(category)) \in CategoryIds

\* FOREIGN KEY comments.blog_id -> blogs.id, checked at commit of the INSERT.
CommentRowOk(tbl, blog_id) == blog_id \in DOMAIN tbl

\* Mutants of the ownership rule: no rule at all, and a rule that only asks
\* for a logged-in user.
OwnsBlog_Anyone(uid, id) == TRUE
OwnsBlog_LoggedIn(uid, id) == uid # Anonymous

\* The ownership rule of edit (line 185) and delete (line 235).
OwnsBlog(uid, id) == blogs[id].user_id = uid

\* Mutant: the owner of the post may delete the comments on it.
OwnsComment_OrOwnsBlog(uid, id) ==
    \/ comments[id].user_id = uid
    \/ (comments[id].blog_id \in DOMAIN blogs /\ blogs[comments[id].blog_id].user_id = uid)

\* The ownership rule of delete_comment, line 118.
OwnsComment(uid, id) == comments[id].user_id = uid

\* storage.remove([name]): the blob is gone when the call succeeds.
Remove(bucket, name, ok) == IF ok THEN bucket \ {name} ELSE bucket

\* `file and file.filename`: a part was sent and names a file.
HasFile(file) == file # None /\ Get(file) # <<>>

\* Mutant: a try block that yields the URL although get_public_url raised.
TryUpload_UrlAnyway(filename, uuid, upOk, urlOk) ==
    IF ~HasExtension(filename)
    THEN [stored |-> {}, url |-> None, printed |-> <<"Upload failed">>, drew |-> 0]
    ELSE LET name == UniqueName(uuid, Extension(filename)) IN
         IF ~upOk
         THEN [stored |-> {}, url |-> None, printed |-> <<"Upload failed">>, drew |-> 1]
         ELSE [stored |-> {name}, url |-> Some(PublicUrl(name)),
               printed |-> IF urlOk THEN <<>> ELSE <<"Upload failed">>, drew |-> 1]

\* The try block of create (150-163) and of edit (211-221): what it stores,
\* the public URL it yields (None when it raised), what it prints, and
\* whether it drew a uuid.
TryUpload(filename, uuid, upOk, urlOk) ==
    IF ~HasExtension(filename)
    THEN [stored |-> {}, url |-> None, printed |-> <<"Upload failed">>, drew |-> 0]
    ELSE LET name == UniqueName(uuid, Extension(filename)) IN
         IF ~upOk
         THEN [stored |-> {}, url |-> None, printed |-> <<"Upload failed">>, drew |-> 1]
         ELSE IF ~urlOk
         THEN [stored |-> {name}, url |-> None, printed |-> <<"Upload failed">>, drew |-> 1]
         ELSE [stored |-> {name}, url |-> Some(PublicUrl(name)), printed |-> <<>>, drew |-> 1]

NoUpload == [stored |-> {}, url |-> None, printed |-> <<>>, drew |-> 0]

index(c, q) ==
    /\ IF ~is_authenticated(c)
       THEN resp' = Unauthorized("index")
       ELSE IF ~Falsy(q)
       THEN resp' = RenderList("index", "index.html",
                       OrderByCreatedDesc({i \in BlogIds : Matches(i, Get(q))}))
       ELSE resp' = RenderList("index", "index.html", OrderByCreatedDesc(BlogIds))
    /\ UNCHANGED <<store, blobs, nextUuid, session, inflight, registered>>

my_blogs(c) ==
    /\ IF ~is_authenticated(c)
       THEN resp' = Unauthorized("my_blogs")
       ELSE resp' = RenderList("my_blogs", "my-blogs.html",
                       OrderByCreatedDesc({i \in BlogIds : blogs[i].user_id = session[c]}))
    /\ UNCHANGED <<store, blobs, nextUuid, session, inflight, registered>>

add_comment(c, blog_id, content) ==
    /\ IF ~is_authenticated(c)
       THEN /\ resp' = Unauthorized("add_comment")
            /\ UNCHANGED <<comments, nextCommentId>>
       ELSE IF BlankComment(content)
       THEN /\ resp' = Redirect("add_comment", "blog")
            /\ UNCHANGED <<comments, nextCommentId>>
       ELSE IF CommentRowOk(blogs, blog_id)
       THEN /\ nextCommentId <= MaxComments
            /\ comments' = With(comments, nextCommentId,
                                [content |-> Get(content), created_at |-> Now,
                                 user_id |-> session[c], blog_id |-> blog_id])
            /\ nextCommentId' = nextCommentId + 1
            /\ resp' = Redirect("add_comment", "blog")
       ELSE /\ resp' = Abort("add_comment", "500 IntegrityError")
            /\ UNCHANGED <<comments, nextCommentId>>
    /\ UNCHANGED <<users, blogs, nextBlogId, blobs, nextUuid, session, inflight, registered>>

delete_comment(c, comment_id) ==
    /\ IF ~is_authenticated(c)
       THEN /\ resp' = Unauthorized("delete_comment")
            /\ UNCHANGED comments
       ELSE IF comment_id \notin CommentIds
       THEN /\ resp' = Abort("delete_comment", "404")
            /\ UNCHANGED comments
       ELSE IF OwnsComment(session[c], comment_id)
       THEN /\ comments' = Without(comments, {comment_id})
            /\ resp' = Redirect("delete_comment", "blog")
       ELSE /\ resp' = Flash("delete_comment", "blog",
                             "You do not have permission to delete this comment.")
            /\ UNCHANGED comments
    /\ UNCHANGED <<users, blogs, nextBlogId, nextCommentId, blobs, nextUuid, session, inflight,
                   registered>>

create(c, method, form, file, upOk, urlOk) ==
    /\ IF ~is_authenticated(c)
       THEN /\ resp' = Unauthorized("create")
            /\ UNCHANGED <<blogs, nextBlogId, blobs, nextUuid>>
       ELSE IF method # "POST"
       THEN /\ resp' = Render("create", "create.html", "")
            /\ UNCHANGED <<blogs, nextBlogId, blobs, nextUuid>>
       ELSE IF Falsy(form.title) \/ Falsy(form.content) \/ Falsy(form.category)
       THEN /\ resp' = Render("create", "create.html", "All fields are required")
            /\ UNCHANGED <<blogs, nextBlogId, blobs, nextUuid>>
       ELSE LET up == IF HasFile(file)
                      THEN TryUpload(Get(file), nextUuid, upOk, urlOk)
                      ELSE NoUpload
            IN /\ up.drew = 1 => nextUuid <= MaxUuids
               /\ blobs' = blobs \cup up.stored
               /\ nextUuid' = nextUuid + up.drew
               /\ IF BlogRowOk(form.title, form.content, form.category)
                  THEN /\ nextBlogId <= MaxBlogs
                       /\ blogs' = With(blogs, nextBlogId,
                              [title |-> Get(form.title), content |-> Get(form.content),
                               thumbnail |-> up.url, created_at |-> Now,
                               user_id |-> session[c],
                               category_id |-> ParseInt(Get(form.category))])
                       /\ nextBlogId' = nextBlogId + 1
                       /\ resp' = [Redirect("create", "index") EXCEPT !.printed = up.printed]
                  ELSE /\ resp' = [Abort("create", "500 IntegrityError")
                                      EXCEPT !.printed = up.printed]
                       /\ UNCHANGED <<blogs, nextBlogId>>
    /\ UNCHANGED <<users, comments, nextCommentId, session, inflight, registered>>

\* Mutant: the reference is cleared only when the blob was removed.
RemoveImage_KeepsOnFailure(thumbnail, bucket, remove_image, rmOk) ==
    IF remove_image /\ thumbnail # None
    THEN [thumbnail |-> IF rmOk THEN None ELSE thumbnail,
          bucket |-> Remove(bucket, OldFilename(Get(thumbnail)), rmOk),
          printed |-> IF rmOk THEN <<>> ELSE <<"Cloud delete failed">>]
    ELSE [thumbnail |-> thumbnail, bucket |-> bucket, printed |-> <<>>]

\* Lines 194-200 of edit: the remove-image branch.  The thumbnail it leaves on
\* the object, the bucket, and what it prints.
RemoveImage(thumbnail, bucket, remove_image, rmOk) ==
    IF remove_image /\ thumbnail # None
    THEN [thumbnail |-> None,
          bucket |-> Remove(bucket, OldFilename(Get(thumbnail)), rmOk),
          printed |-> IF rmOk THEN <<>> ELSE <<"Cloud delete failed">>]
    ELSE [thumbnail |-> thumbnail, bucket |-> bucket, printed |-> <<>>]

\* Mutant: the new-file branch without the removal of the old blob.
ReplaceImage_NoCleanup(thumbnail, bucket, file, uuid, rmOk, upOk, urlOk) ==
    IF file # None /\ Get(file) # <<>>
    THEN LET up == TryUpload(Get(file), uuid, upOk, urlOk)
         IN [thumbnail |-> IF up.url # None THEN up.url ELSE thumbnail,
             bucket |-> bucket \cup up.stored,
             printed |-> up.printed,
             drew |-> up.drew]
    ELSE [thumbnail |-> thumbnail, bucket |-> bucket, printed |-> <<>>, drew |-> 0]

\* Lines 202-221 of edit: the new-file branch, run after RemoveImage.
ReplaceImage(thumbnail, bucket, file, uuid, rmOk, upOk, urlOk) ==
    IF file # None /\ Get(file) # <<>>
    THEN LET cleared == IF thumbnail # None
                        THEN Remove(bucket, OldFilename(Get(thumbnail)), rmOk)
                        ELSE bucket
             up == TryUpload(Get(file), uuid, upOk, urlOk)
         IN [thumbnail |-> IF up.url # None THEN up.url ELSE thumbnail,
             bucket |-> cleared \cup up.stored,
             printed |-> up.printed,
             drew |-> up.drew]
    ELSE [thumbnail |-> thumbnail, bucket |-> bucket, printed |-> <<>>, drew |-> 0]

edit(c, id, method, form, remove_image, file, rmOk, upOk, urlOk) ==
    /\ IF ~is_authenticated(c)
       THEN /\ resp' = Unauthorized("edit")
            /\ UNCHANGED <<blogs, blobs, nextUuid>>
       ELSE IF id \notin BlogIds
       THEN /\ resp' = Abort("edit", "404")
            /\ UNCHANGED <<blogs, blobs, nextUuid>>
       ELSE IF ~OwnsBlog(session[c], id)
       THEN /\ resp' = Flash("edit", "index", "You are not authorized to edit this blog.")
            /\ UNCHANGED <<blogs, blobs, nextUuid>>
       ELSE IF method # "POST"
       THEN /\ resp' = Render("edit", "edit.html", "")
            /\ UNCHANGED <<blogs, blobs, nextUuid>>
       ELSE LET rm == RemoveImage(blogs[id].thumbnail, blobs, remove_image, rmOk)
                rp == ReplaceImage(rm.thumbnail, rm.bucket, file, nextUuid, rmOk, upOk, urlOk)
            IN /\ rp.drew = 1 => nextUuid <= MaxUuids
               /\ blobs' = rp.bucket
               /\ nextUuid' = nextUuid + rp.drew
               /\ IF BlogRowOk(form.title, form.content, form.category)
                  THEN /\ blogs' = [blogs EXCEPT ![id] =
                              [@ EXCEPT !.title = Get(form.title),
                                        !.content = Get(form.content),
                                        !.category_id = ParseInt(Get(form.category)),
                                        !.thumbnail = rp.thumbnail]]
                       /\ resp' = [Redirect("edit", "my_blogs")
                                      EXCEPT !.printed = rm.printed \o rp.printed]
                  ELSE /\ resp' = [Abort("edit", "500 IntegrityError")
                                      EXCEPT !.printed = rm.printed \o rp.printed]
                       /\ UNCHANGED blogs
    /\ UNCHANGED <<users, comments, nextBlogId, nextCommentId, session, inflight, registered>>

\* Mutant: the relationship without its cascade, the comments stay.
CascadeComments_None(tbl, id) == tbl

\* db.session.delete(blog) with cascade = "all, delete-orphan" on Blog.comments
CascadeComments(tbl, id) == Without(tbl, {k \in DOMAIN tbl : tbl[k].blog_id = id})

\* Mutant: a delete that gives up when the blob could not be removed.
delete_AbortsOnBlobFailure(c, id, rmOk) ==
    /\ IF ~is_authenticated(c)
       THEN /\ resp' = Unauthorized("delete")
            /\ UNCHANGED <<blogs, comments, blobs>>
       ELSE IF id \notin BlogIds
       THEN /\ resp' = Abort("delete", "404")
            /\ UNCHANGED <<blogs, comments, blobs>>
       ELSE IF OwnsBlog(session[c], id)
       THEN IF blogs[id].thumbnail # None /\ ~rmOk
            THEN /\ resp' = [Redirect("delete", "my_blogs")
                                EXCEPT !.printed = <<"Cloud delete failed">>]
                 /\ UNCHANGED <<blogs, comments, blobs>>
            ELSE /\ blobs' = IF blogs[id].thumbnail # None
                             THEN Remove(blobs, OldFilename(Get(blogs[id].thumbnail)), rmOk)
                             ELSE blobs
                 /\ comments' = CascadeComments(comments, id)
                 /\ blogs' = Without(blogs, {id})
                 /\ resp' = Flash("delete", "my_blogs", "Blog deleted successfully.")
       ELSE /\ resp' = Redirect("delete", "my_blogs")
            /\ UNCHANGED <<blogs, comments, blobs>>
    /\ UNCHANGED <<users, nextBlogId, nextCommentId, nextUuid, session, inflight, registered>>

delete(c, id, rmOk) ==
    /\ IF ~is_authenticated(c)
       THEN /\ resp' = Unauthorized("delete")
            /\ UNCHANGED <<blogs, comments, blobs>>
       ELSE IF id \notin BlogIds
       THEN /\ resp' = Abort("delete", "404")
            /\ UNCHANGED <<blogs, comments, blobs>>
       ELSE IF OwnsBlog(session[c], id)
       THEN LET thumbnail == blogs[id].thumbnail IN
            /\ blobs' = IF thumbnail # None
                        THEN Remove(blobs, OldFilename(Get(thumbnail)), rmOk)
                        ELSE blobs
            /\ comments' = CascadeComments(comments, id)
            /\ blogs' = Without(blogs, {id})
            /\ resp' = [Flash("delete", "my_blogs", "Blog deleted successfully.")
                           EXCEPT !.printed = IF thumbnail # None /\ ~rmOk
                                              THEN <<"Cloud delete failed">>
                                              ELSE <<>>]
       ELSE /\ resp' = Redirect("delete", "my_blogs")
            /\ UNCHANGED <<blogs, comments, blobs>>
    /\ UNCHANGED <<users, nextBlogId, nextCommentId, nextUuid, session, inflight, registered>>

\* ------------------------------------------------------------ requests
\* Ids a request can name: every id ever handed out, and one never used.
BlogIdInputs == 1..(MaxBlogs + 1)
CommentIdInputs == 1..(MaxComments + 1)

\* The outcomes of the object store's calls that a request can meet.
UploadOutcomes(file) ==
    IF HasFile(file) /\ HasExtension(Get(file)) THEN BOOLEAN ELSE {TRUE}

RemoveOutcomes(id) ==
    IF id \in BlogIds /\ blogs[id].thumbnail # None THEN BOOLEAN ELSE {TRUE}

\* The fields a request carries.  A field the handler does not read on the
\* path the request takes is left absent.
FormsRead(read, forms, absent) == IF read THEN forms ELSE {absent}

LoginReads(c, m) == m = "POST" /\ ~is_authenticated(c)
CreateReads(c, m) == m = "POST" /\ is_authenticated(c)
CreateReadsFile(c, m, f) ==
    CreateReads(c, m) /\ ~(Falsy(f.title) \/ Falsy(f.content) \/ Falsy(f.category))
EditReads(c, id, m) ==
    /\ m = "POST"
    /\ is_authenticated(c)
    /\ id \in BlogIds
    /\ OwnsBlog(session[c], id)

\* One request to each route, with whatever fields it carries and whatever
\* the object store answers.
RegisterRequest(c) ==
    \E m \in Methods :
       \E f \in FormsRead(m = "POST", RegisterForms, NoCredentials), s \in Salts :
          register(c, m, f, s)

LoginRequest(c) ==
    \E m \in Methods :
       \E f \in FormsRead(LoginReads(c, m), LoginForms, NoCredentials) : login(c, m, f)

IndexRequest(c) == \E q \in QueryInputs : index(c, q)

AddCommentRequest(c, id) == \E t \in CommentInputs : add_comment(c, id, t)

CreateRequest(c) ==
    \E m \in Methods :
       \E f \in FormsRead(CreateReads(c, m), PostForms, NoForm) :
          \E file \in FormsRead(CreateReadsFile(c, m, f), FileInputs, None) :
             \E upOk \in UploadOutcomes(file) :
                \E urlOk \in (IF upOk THEN UploadOutcomes(file) ELSE {TRUE}) :
                   create(c, m, f, file, upOk, urlOk)

EditRequest(c, id) ==
    \E m \in Methods :
       \E f \in FormsRead(EditReads(c, id, m), PostForms, NoForm),
          ri \in FormsRead(EditReads(c, id, m), BOOLEAN, FALSE),
          file \in FormsRead(EditReads(c, id, m), FileInputs, None) :
          \E rmOk \in RemoveOutcomes(id), upOk \in UploadOutcomes(file) :
             \E urlOk \in (IF upOk THEN UploadOutcomes(file) ELSE {TRUE}) :
                edit(c, id, m, f, ri, file, rmOk, upOk, urlOk)

DeleteRequest(c, id) == \E rmOk \in RemoveOutcomes(id) : delete(c, id, rmOk)

Next ==
    \/ \E c \in Clients : RegisterRequest(c)
    \/ \E c \in Clients : LoginRequest(c)
    \/ \E c \in Clients : logout(c)
    \/ \E c \in Clients : IndexRequest(c)
    \/ \E c \in Clients : my_blogs(c)
    \/ \E c \in Clients, id \in BlogIdInputs : AddCommentRequest(c, id)
    \/ \E c \in Clients, id \in CommentIdInputs : delete_comment(c, id)
    \/ \E c \in Clients : CreateRequest(c)
    \/ \E c \in Clients, id \in BlogIdInputs : EditRequest(c, id)
    \/ \E c \in Clients, id \in BlogIdInputs : DeleteRequest(c, id)

Spec == Init /\ [][Next]_vars

\* Register requests whose check and commit are separate steps, so that two
\* of them can both pass the check before either commits.
RaceNext ==
    \/ \E c \in Clients, f \in RegisterForms, s \in Salts : register_begin(c, f, s)
    \/ \E i \in 1..MaxInflight : register_finish(i)
    \/ \E c \in Clients : LoginRequest(c)
    \/ \E c \in Clients : logout(c)

RaceSpec == Init /\ [][RaceNext]_vars

\* The owner's delete in two steps, so that a comment can be committed
\* between them.  delete_begin is lines 233-243: the row is loaded, the blob
\* removed, and db.session.delete(blog) loads the comments the cascade will
\* delete.  delete_finish is the commit of line 244: it deletes those
\* comments and the post, and fails on the foreign key of a comment on the
\* post that the cascade did not load; the failure rolls the transaction
\* back and is not caught.
delete_begin(c, id, rmOk) ==
    /\ Len(inflight) < MaxInflight
    /\ is_authenticated(c)
    /\ id \in BlogIds
    /\ OwnsBlog(session[c], id)
    /\ blobs' = IF blogs[id].thumbnail # None
                THEN Remove(blobs, OldFilename(Get(blogs[id].thumbnail)), rmOk)
                ELSE blobs
    /\ inflight' = Append(inflight,
           [client |-> c, id |-> id,
            cascade |-> {k \in DOMAIN comments : comments[k].blog_id = id},
            printed |-> IF blogs[id].thumbnail # None /\ ~rmOk
                        THEN <<"Cloud delete failed">> ELSE <<>>])
    /\ UNCHANGED <<store, nextUuid, session, resp, registered>>

delete_finish(i) ==
    /\ i \in 1..Len(inflight)
    /\ IF \A k \in DOMAIN comments :
             comments[k].blog_id = inflight[i].id => k \in inflight[i].cascade
       THEN /\ comments' = Without(comments, inflight[i].cascade)
            /\ blogs' = Without(blogs, {inflight[i].id})
            /\ resp' = [Flash("delete", "my_blogs", "Blog deleted successfully.")
                           EXCEPT !.printed = inflight[i].printed]
       ELSE /\ resp' = [Abort("delete", "500 IntegrityError")
                           EXCEPT !.printed = inflight[i].printed]
            /\ UNCHANGED <<blogs, comments>>
    /\ inflight' = [k \in 1..(Len(inflight) - 1) |->
                        IF k < i THEN inflight[k] ELSE inflight[k + 1]]
    /\ UNCHANGED <<users, nextBlogId, nextCommentId, blobs, nextUuid, session, registered>>

DeleteBeginRequest(c, id) == \E rmOk \in RemoveOutcomes(id) : delete_begin(c, id, rmOk)

DeleteRaceNext ==
    \/ \E c \in Clients : RegisterRequest(c)
    \/ \E c \in Clients : LoginRequest(c)
    \/ \E c \in Clients : logout(c)
    \/ \E c \in Clients : CreateRequest(c)
    \/ \E c \in Clients, id \in BlogIdInputs : AddCommentRequest(c, id)
    \/ \E c \in Clients, id \in BlogIdInputs : DeleteBeginRequest(c, id)
    \/ \E i \in 1..MaxInflight : delete_finish(i)

DeleteRaceSpec == Init /\ [][DeleteRaceNext]_vars

\* The list page over tables of several posts.  The tables are those that
\* creates by two registered users, and deletes, leave behind: ids in the
\* order of creation, each post by one of the users.
SearchBlogs == 2
SearchTitles == {<<"T", "a">>, <<"h">>}
SearchBodies == {<<"c", "o">>, <<"p">>}
SearchQueries ==
    {None, Some(<<>>), Some(<<"A">>), Some(<<"O">>), Some(<<"t", "A">>), Some(<<"b">>),
     Some(<<"j">>), Some(<<"_">>)}

SearchUsers ==
    <<[username |-> Alice, hash |-> generate_password_hash(Pw8, "s1")],
      [username |-> Bob, hash |-> generate_password_hash(Pw8, "s1")]>>

SearchRows(id) ==
    [title : SearchTitles, content : SearchBodies, thumbnail : {None},
     created_at : {id + 1}, user_id : 1..Len(SearchUsers), category_id : CategoryIds]

SearchTables ==
    UNION {{tbl \in [D -> UNION {SearchRows(i) : i \in D}] :
               \A i \in D : tbl[i] \in SearchRows(i)} : D \in SUBSET (1..SearchBlogs)}

SearchInit ==
    /\ users = SearchUsers
    /\ blogs \in SearchTables
    /\ comments = <<>>
    /\ nextBlogId = SearchBlogs + 1
    /\ nextCommentId = 1
    /\ blobs = {}
    /\ nextUuid = 1
    /\ session \in [Clients -> {Anonymous} \cup (1..Len(SearchUsers))]
    /\ inflight = <<>>
    /\ resp = Response("none", "none", "", "", "", <<>>)
    /\ registered = <<[username |-> Alice, password |-> Pw8],
                      [username |-> Bob, password |-> Pw8]>>

SearchRequest(c) == \E q \in SearchQueries : index(c, q)

SearchNext == \E c \in Clients : SearchRequest(c)

SearchSpec == SearchInit /\ [][SearchNext]_vars

\* ================================================================== claims
\* The blob a thumbnail URL names, and the posts a blob is the thumbnail of.
BlobOf(thumbnail) == OldFilename(Get(thumbnail))
ReferencedBlobs(tbl) == {BlobOf(tbl[i].thumbnail) : i \in {k \in DOMAIN tbl : tbl[k].thumbnail # None}}
CommentsOn(tbl, id) == {k \in DOMAIN tbl : tbl[k].blog_id = id}

NotAuthorizedToEdit == Flash("edit", "index", "You are not authorized to edit this blog.")

\* C1: an edit request by a logged-in user who does not own the post is
\* answered with the not-authorized notice and a redirect to the list, and
\* leaves the post (title, content, category, thumbnail, owner), the
\* comments and the bucket as they were.
C1_EditByNonOwnerRejected ==
    [][\A c \in Clients, id \in BlogIdInputs :
          (/\ id \in BlogIds
           /\ session[c] # Anonymous
           /\ blogs[id].user_id # session[c]
           /\ EditRequest(c, id))
          => (/\ resp' = NotAuthorizedToEdit
              /\ blogs' = blogs
              /\ comments' = comments
              /\ blobs' = blobs)]_vars

\* C1 witness: a non-owner was just refused the edit of a post that has a
\* thumbnail in the bucket and a comment.
C1_Witness ==
    /\ resp = NotAuthorizedToEdit
    /\ \E c \in Clients, id \in BlogIds :
          /\ session[c] # Anonymous
          /\ blogs[id].user_id # session[c]
          /\ blogs[id].thumbnail # None
          /\ BlobOf(blogs[id].thumbnail) \in blobs
          /\ CommentsOn(comments, id) # {}

\* The last request was a create that stored the post, an edit that
\* committed, or a delete that removed the post.
SuccessfulPostOperation ==
    \/ resp.op = "create" /\ resp.kind = "redirect" /\ resp.to = "index"
    \/ resp.op = "edit" /\ resp.kind = "redirect" /\ resp.to = "my_blogs"
    \/ resp.op = "delete" /\ resp.flashed = "Blog deleted successfully."

\* C2: after a successful create, edit or delete, whatever the object store
\* answered, every thumbnail reference names a blob that is in the bucket
\* and every blob in the bucket is the thumbnail of some post.
C2_NoDanglingNoOrphan ==
    SuccessfulPostOperation =>
       /\ \A id \in BlogIds :
             blogs[id].thumbnail # None => BlobOf(blogs[id].thumbnail) \in blobs
       /\ \A b \in blobs : \E id \in BlogIds : blogs[id].thumbnail = Some(PublicUrl(b))

\* C3: when an edit request removed the post's old blob from the bucket,
\* the post does not reference that blob once the request is over, also
\* when the upload of the replacement or the commit failed.
C3_NoReferenceToDeletedBlob ==
    [][\A c \in Clients, id \in BlogIdInputs :
          (/\ id \in BlogIds
           /\ blogs[id].thumbnail # None
           /\ BlobOf(blogs[id].thumbnail) \in blobs
           /\ EditRequest(c, id)
           /\ BlobOf(blogs[id].thumbnail) \notin blobs')
          => (id \in DOMAIN blogs' => blogs'[id].thumbnail # blogs[id].thumbnail)]_vars

\* C4: when the owner's delete request succeeds, no comment on the post
\* remains, no remaining post references the post's blob, and the blob is
\* gone from the bucket or the failure of its removal was printed.
C4_DeleteCascades ==
    [][\A c \in Clients, id \in BlogIdInputs :
          (/\ id \in BlogIds
           /\ session[c] = blogs[id].user_id
           /\ DeleteRequest(c, id))
          => (/\ id \notin DOMAIN blogs'
              /\ CommentsOn(comments', id) = {}
              /\ blogs[id].thumbnail # None =>
                    /\ \/ BlobOf(blogs[id].thumbnail) \notin blobs'
                       \/ resp'.printed = <<"Cloud delete failed">>
                    /\ BlobOf(blogs[id].thumbnail) \notin ReferencedBlobs(blogs'))]_vars

\* C4 witness: a post with a thumbnail was just deleted by its owner, the
\* store's removal had failed, and of the comment made earlier nothing is
\* left.
C4_Witness ==
    /\ resp.op = "delete"
    /\ resp.flashed = "Blog deleted successfully."
    /\ resp.printed = <<"Cloud delete failed">>
    /\ BlogIds = {}
    /\ blobs # {}
    /\ nextCommentId > 1
    /\ comments = <<>>

\* C5: a delete request by a logged-in user who does not own the post
\* leaves the posts, the comments and the bucket as they were and prints
\* nothing; and a post leaves the table only in a step that is the
\* successful delete request of its owner.
C5_DeleteOnlyByOwner ==
    [][/\ \A c \in Clients, id \in BlogIdInputs :
             (/\ id \in BlogIds
              /\ session[c] # Anonymous
              /\ blogs[id].user_id # session[c]
              /\ DeleteRequest(c, id))
             => (/\ resp' = Redirect("delete", "my_blogs")
                 /\ blogs' = blogs
                 /\ comments' = comments
                 /\ blobs' = blobs)
       /\ \A id \in BlogIds :
             id \notin DOMAIN blogs' =>
                /\ resp'.op = "delete"
                /\ resp'.flashed = "Blog deleted successfully."
                /\ \E c \in Clients : session[c] = blogs[id].user_id]_vars

\* C5 witness: a non-owner just asked to delete a post that has a thumbnail
\* in the bucket and a comment; all three are still there.
C5_Witness ==
    /\ resp = Redirect("delete", "my_blogs")
    /\ \E c \in Clients, id \in BlogIds :
          /\ session[c] # Anonymous
          /\ blogs[id].user_id # session[c]
          /\ blogs[id].thumbnail # None
          /\ BlobOf(blogs[id].thumbnail) \in blobs
          /\ CommentsOn(comments, id) # {}

NoPermissionToDeleteComment ==
    Flash("delete_comment", "blog", "You do not have permission to delete this comment.")

\* C6: a delete_comment request by a logged-in user who is not the
\* comment's author leaves the comments as they were, also when the user
\* owns the post; a delete_comment request by the author removes the
\* comment, whoever owns the post.
C6_CommentDeletedOnlyByAuthor ==
    [][\A c \in Clients, k \in CommentIdInputs :
          (k \in CommentIds /\ session[c] # Anonymous /\ delete_comment(c, k))
          => IF comments[k].user_id = session[c]
             THEN comments' = Without(comments, {k})
             ELSE comments' = comments /\ resp' = NoPermissionToDeleteComment]_vars

\* C6 witness: the owner of a post was just refused the deletion of another
\* user's comment on it.
C6_Witness ==
    /\ resp = NoPermissionToDeleteComment
    /\ \E c \in Clients, k \in CommentIds :
          /\ comments[k].blog_id \in BlogIds
          /\ blogs[comments[k].blog_id].user_id = session[c]
          /\ comments[k].user_id # session[c]

GuardedRoutes ==
    {"index", "my_blogs", "create", "edit", "delete", "add_comment", "delete_comment"}

\* C7: a request to a route behind @login_required from an anonymous
\* session is answered with the redirect to login and changes neither the
\* tables, nor the bucket, nor the session.
C7_AnonymousIsRedirected ==
    [][\A c \in Clients :
          (/\ session[c] = Anonymous
           /\ \/ IndexRequest(c)
              \/ my_blogs(c)
              \/ CreateRequest(c)
              \/ \E id \in BlogIdInputs : EditRequest(c, id) \/ DeleteRequest(c, id)
                                             \/ AddCommentRequest(c, id)
              \/ \E k \in CommentIdInputs : delete_comment(c, k))
          => (/\ resp'.op \in GuardedRoutes
              /\ resp' = Unauthorized(resp'.op)
              /\ UNCHANGED <<store, blobs, session>>)]_vars

\* C7 witness: after a login and a logout, with a post in the table, the
\* anonymous session was just refused a delete.
C7_Witness ==
    /\ resp = Unauthorized("delete")
    /\ \A c \in Clients : session[c] = Anonymous
    /\ BlogIds # {}
    /\ blobs # {}

\* C8: of two register requests for one username that both passed the
\* existence check, one creates the user and the other is answered with the
\* username-taken message, not with an unhandled error; no two rows of
\* users share a username.
C8_DuplicateRegistrationHandled ==
    /\ \A i, j \in UserIds : users[i].username = users[j].username => i = j
    /\ resp.op = "register" => resp.kind # "abort"

\* C9: from an anonymous session, a login with the username and password
\* of any earlier successful register logs the session in as the user that
\* register created.
C9_RegisteredCredentialsLogIn ==
    [][\A c \in Clients, i \in 1..Len(registered) :
          (/\ session[c] = Anonymous
           /\ login(c, "POST", Credentials(Some(registered[i].username),
                                           Some(registered[i].password), None)))
          => (session'[c] = i /\ resp' = Redirect("login", "index"))]_vars

\* C9 witness: both users registered, one of them created a post, logged
\* out, and the first registered user just logged in again.
C9_Witness ==
    /\ Len(users) = 2
    /\ BlogIds # {}
    /\ resp = Redirect("login", "index")
    /\ \E c \in Clients : session[c] = 1

InvalidCredentials == Render("login", "login.html", "Invalid Username or Password")

\* C10: from an anonymous session, a login with a non-empty username that
\* is not registered and a login with a registered username and a
\* non-empty password other than the registered one get the same answer,
\* and neither changes the session, the tables or the bucket.
C10_FailedLoginsIndistinguishable ==
    [][\A c \in Clients, f \in LoginForms :
          (/\ session[c] = Anonymous
           /\ ~Falsy(f.username) /\ ~Falsy(f.password)
           /\ \A i \in 1..Len(registered) :
                 registered[i].username = Get(f.username)
                    => registered[i].password # Get(f.password)
           /\ login(c, "POST", f))
          => (resp' = InvalidCredentials /\ UNCHANGED <<store, blobs, session>>)]_vars

\* C10 witness: a login was just refused while exactly one of the two
\* usernames is registered, so that both kinds of failure can occur.
C10_Witness ==
    /\ resp = InvalidCredentials
    /\ Len(users) = 1
    /\ \A c \in Clients : session[c] = Anonymous

RegisterFailed(message) == Render("register", "register.html", message)

UsernameExists(username) == \E i \in UserIds : users[i].username = username

\* C11: a submitted register form fails with the missing-field message when
\* username or password is absent or empty; else with the weak-password
\* message when the password is shorter than 8 (7 fails, 8 passes); else
\* with the mismatch message when the confirmation differs; else with the
\* username-taken message when the username exists.  A failure adds no
\* user and leaves the session.  Otherwise exactly one user is added, with
\* the submitted username, and the session is logged in as that user.
C11_RegisterValidation ==
    [][\A c \in Clients, f \in RegisterForms, s \in Salts :
          register(c, "POST", f, s) =>
             IF Falsy(f.username) \/ Falsy(f.password)
             THEN resp' = RegisterFailed("All fields are required")
                  /\ UNCHANGED <<users, session>>
             ELSE IF Len(Get(f.password)) < 8
             THEN resp' = RegisterFailed("Password must be at least 8 characters")
                  /\ UNCHANGED <<users, session>>
             ELSE IF f.password # f.confirmation
             THEN resp' = RegisterFailed("Passwords do not match")
                  /\ UNCHANGED <<users, session>>
             ELSE IF UsernameExists(Get(f.username))
             THEN resp' = RegisterFailed("Username already taken")
                  /\ UNCHANGED <<users, session>>
             ELSE /\ Len(users') = Len(users) + 1
                  /\ SubSeq(users', 1, Len(users)) = users
                  /\ users'[Len(users')].username = Get(f.username)
                  /\ session'[c] = Len(users')
                  /\ resp'.kind = "redirect"]_vars

\* C11 witness: with one user registered, a register with a password of
\* length 7 was just refused.
C11_Witness ==
    /\ resp = RegisterFailed("Password must be at least 8 characters")
    /\ Len(users) = 1

\* The files whose upload can succeed: a part with a name that has an extension.
UploadableFiles == {file \in FileInputs : HasFile(file) /\ HasExtension(Get(file))}

\* C12: a post has a thumbnail whose blob is in the bucket; its owner's
\* edit uploads a new file, the upload and the public URL succeed and the
\* edit commits.  Then the post's thumbnail names a blob that is in the
\* bucket, was not there before and is not the prior blob; and when the
\* removal of the prior blob succeeded, the prior blob is no longer there.
C12_ReplaceRoundTrip ==
    [][\A c \in Clients, id \in BlogIdInputs :
          (/\ id \in BlogIds
           /\ blogs[id].thumbnail # None
           /\ BlobOf(blogs[id].thumbnail) \in blobs
           /\ session[c] = blogs[id].user_id
           /\ resp'.op = "edit" /\ resp'.kind = "redirect")
          => \A f \in PostForms, ri \in BOOLEAN, file \in UploadableFiles, rmOk \in BOOLEAN :
                edit(c, id, "POST", f, ri, file, rmOk, TRUE, TRUE) =>
                   /\ blogs'[id].thumbnail # None
                   /\ blogs'[id].thumbnail = Some(PublicUrl(BlobOf(blogs'[id].thumbnail)))
                   /\ BlobOf(blogs'[id].thumbnail) \in blobs'
                   /\ BlobOf(blogs'[id].thumbnail) \notin blobs
                   /\ BlobOf(blogs'[id].thumbnail) # BlobOf(blogs[id].thumbnail)
                   /\ rmOk => BlobOf(blogs[id].thumbnail) \notin blobs']_vars

\* C12 witness: an edit just committed, the post's thumbnail is the second
\* blob ever named, and it is the only blob in the bucket.
C12_Witness ==
    /\ resp = Redirect("edit", "my_blogs")
    /\ \E id \in BlogIds :
          /\ blogs[id].thumbnail # None
          /\ BlobOf(blogs[id].thumbnail).uuid = 2
          /\ blobs = {BlobOf(blogs[id].thumbnail)}

\* A create form whose three fields are present and whose category is one of
\* the categories.
WellFormed(f) ==
    /\ ~Falsy(f.title) /\ ~Falsy(f.content) /\ ~Falsy(f.category)
    /\ ParseInt(Get(f.category)) \in CategoryIds

\* C13: a create request by a logged-in user carries title, content and a
\* category and a thumbnail file, and the upload or the public URL fails (or
\* the file name has no extension to upload under).  Then the post is
\* created: one new row, owned by the requester, with the fields of the form
\* and no thumbnail, and the response is the redirect to the list.
C13_CreateSurvivesUploadFailure ==
    [][\A c \in Clients :
          (session[c] # Anonymous /\ resp'.op = "create")
          => \A f \in PostForms, file \in FileInputs, upOk \in BOOLEAN, urlOk \in BOOLEAN :
                (/\ WellFormed(f)
                 /\ HasFile(file)
                 /\ (~HasExtension(Get(file)) \/ ~upOk \/ ~urlOk)
                 /\ create(c, "POST", f, file, upOk, urlOk))
                => /\ DOMAIN blogs' = DOMAIN blogs \cup {nextBlogId}
                   /\ nextBlogId \notin DOMAIN blogs
                   /\ \A i \in DOMAIN blogs : blogs'[i] = blogs[i]
                   /\ blogs'[nextBlogId].user_id = session[c]
                   /\ blogs'[nextBlogId].thumbnail = None
                   /\ blogs'[nextBlogId].title = Get(f.title)
                   /\ blogs'[nextBlogId].content = Get(f.content)
                   /\ resp'.kind = "redirect" /\ resp'.to = "index"]_vars

\* C13 witness: a create just answered with its redirect after a failed
\* upload, and the post stands without a thumbnail.
C13_Witness ==
    /\ resp.op = "create" /\ resp.kind = "redirect"
    /\ resp.printed = <<"Upload failed">>
    /\ \E id \in BlogIds : blogs[id].thumbnail = None /\ blogs[id].user_id = session[1]

\* C14: the owner deletes a post that has a thumbnail and the object store's
\* remove call fails.  Then the post and every comment on it are gone, the
\* failure is printed, and the response is the deleted notice.
C14_DeleteSurvivesBlobFailure ==
    [][\A c \in Clients, id \in BlogIdInputs :
          (/\ id \in BlogIds
           /\ session[c] = blogs[id].user_id
           /\ blogs[id].thumbnail # None
           /\ delete(c, id, FALSE))
          => /\ id \notin DOMAIN blogs'
             /\ CommentsOn(comments', id) = {}
             /\ \A k \in DOMAIN comments : comments[k].blog_id # id => k \in DOMAIN comments'
             /\ blobs' = blobs
             /\ resp'.flashed = "Blog deleted successfully."
             /\ resp'.printed = <<"Cloud delete failed">>]_vars

\* C14 witness: a delete just answered with the deleted notice after a failed
\* remove; the post is gone and its blob is still in the bucket.
C14_Witness ==
    /\ resp.op = "delete"
    /\ resp.flashed = "Blog deleted successfully."
    /\ resp.printed = <<"Cloud delete failed">>
    /\ BlogIds = {}
    /\ CommentIds = {}
    /\ nextCommentId > 1
    /\ blobs # {}

\* C15: the owner's edit has the remove-image flag and no new file, the post
\* has a thumbnail, and the edit commits.  Then the post has no thumbnail,
\* whatever the remove call did; the call was made: when it succeeded the
\* blob is gone, when it failed the failure is printed and the bucket is as
\* it was.
C15_RemoveThumbnail ==
    [][\A c \in Clients, id \in BlogIdInputs :
          (/\ id \in BlogIds
           /\ session[c] = blogs[id].user_id
           /\ blogs[id].thumbnail # None
           /\ resp'.op = "edit" /\ resp'.kind = "redirect")
          => \A f \in PostForms, file \in FileInputs \ UploadableFiles, rmOk \in BOOLEAN :
                (~HasFile(file) /\ edit(c, id, "POST", f, TRUE, file, rmOk, TRUE, TRUE))
                => /\ blogs'[id].thumbnail = None
                   /\ rmOk => /\ blobs' = blobs \ {BlobOf(blogs[id].thumbnail)}
                              /\ resp'.printed = <<>>
                   /\ ~rmOk => /\ blobs' = blobs
                               /\ resp'.printed = <<"Cloud delete failed">>]_vars

\* C15 witness: an edit just committed after a failed remove and no upload;
\* the post has no thumbnail and the blob is still in the bucket.
C15_Witness ==
    /\ resp = [Redirect("edit", "my_blogs") EXCEPT !.printed = <<"Cloud delete failed">>]
    /\ \E id \in BlogIds : blogs[id].thumbnail = None
    /\ blobs # {}

\* Text made of whitespace only, the empty text included.
OnlyWhitespace(text) == \A i \in 1..Len(text) : Whitespace(text[i])

\* C16: a logged-in user, owner of the post or not, comments on a post that
\* exists.  With no content, empty content or whitespace only, nothing is
\* stored and the store is as it was.  Otherwise exactly one comment is
\* added, by the requester, on that post, with the content as sent, and
\* nothing else changes.
C16_AddComment ==
    [][\A c \in Clients, id \in BlogIdInputs :
          (id \in BlogIds /\ session[c] # Anonymous /\ resp'.op = "add_comment")
          => \A t \in CommentInputs :
                add_comment(c, id, t) =>
                   /\ UNCHANGED <<users, blogs, blobs, session>>
                   /\ IF Falsy(t) \/ OnlyWhitespace(Get(t))
                      THEN comments' = comments
                      ELSE /\ \E k \in DOMAIN comments' :
                                /\ k \notin DOMAIN comments
                                /\ DOMAIN comments' = DOMAIN comments \cup {k}
                                /\ comments'[k].user_id = session[c]
                                /\ comments'[k].blog_id = id
                                /\ comments'[k].content = Get(t)
                           /\ \A j \in DOMAIN comments : comments'[j] = comments[j]]_vars

\* C16 witness: a comment was just added by a user who does not own the post.
C16_Witness ==
    /\ resp = Redirect("add_comment", "blog")
    /\ \E k \in CommentIds :
          /\ comments[k].blog_id \in BlogIds
          /\ comments[k].user_id = session[1]
          /\ blogs[comments[k].blog_id].user_id # comments[k].user_id

\* Two characters that are the same letter, whatever their case.
SameLetter(a, b) ==
    \/ a = b
    \/ \E j \in 1..Len(UpperCase) : {a, b} = {UpperCase[j], LowerCase[j]}

\* The text has q in it, case aside.
ContainsFold(text, q) ==
    \E i \in 0..(Len(text) - Len(q)) : \A k \in 1..Len(q) : SameLetter(text[i + k], q[k])

\* The posts a search for q is to show.
Wanted(q) ==
    {i \in BlogIds :
        \/ Falsy(q)
        \/ ContainsFold(blogs[i].title, Get(q))
        \/ ContainsFold(blogs[i].content, Get(q))
        \/ ContainsFold(users[blogs[i].user_id].username, Get(q))}

\* C17: the list page for a logged-in user shows exactly the posts whose
\* title, content or author's username has q in it, case aside (every post
\* when q is absent or empty), each once, the newest first.
C17_SearchContainsQuery ==
    [][\A c \in Clients, q \in SearchQueries :
          (session[c] # Anonymous /\ index(c, q))
          => /\ {resp'.blogs[k] : k \in DOMAIN resp'.blogs} = Wanted(q)
             /\ Len(resp'.blogs) = Cardinality(Wanted(q))
             /\ \A i, j \in DOMAIN resp'.blogs :
                   i < j => blogs[resp'.blogs[i]].created_at > blogs[resp'.blogs[j]].created_at]_vars

\* C18: a logged-in session keeps its user through every request; it only
\* ever becomes anonymous, and that by a logout.  A login or a register
\* sent from a logged-in session leaves the session as it is.
C18_IdentityChangesOnlyByLogout ==
    [][\A c \in Clients :
          session[c] # Anonymous =>
             \/ session'[c] = session[c]
             \/ (session'[c] = Anonymous /\ resp'.op = "logout")]_vars

\* C19: every stored post has a non-empty title, a non-empty content and a
\* category that exists, and no edit ends in an error of the store.
C19_StoredPostsComplete ==
    /\ \A id \in BlogIds :
          /\ blogs[id].title # <<>>
          /\ blogs[id].content # <<>>
          /\ blogs[id].category_id \in CategoryIds
    /\ ~(resp.op = "edit" /\ resp.kind = "abort" /\ resp.to = "500 IntegrityError")

\* C20: every stored comment is on a post that exists; no add_comment and
\* no delete ends in an error of the store; and once a delete has answered,
\* no post is left whose thumbnail names a blob that is gone.
C20_CommentsOnExistingPosts ==
    /\ \A k \in CommentIds : comments[k].blog_id \in BlogIds
    /\ ~(resp.op \in {"add_comment", "delete"} /\ resp.to = "500 IntegrityError")
    /\ resp.op = "delete" =>
          \A id \in BlogIds : blogs[id].thumbnail # None => BlobOf(blogs[id].thumbnail) \in blobs
====
